---- MODULE Spec2Model ----
(***************************************************************************)
(* Rev Voice: the per-connection conversation session of the WebSocket     *)
(* server (server/index.js, carried in src/README.md lines 406-825).       *)
(*                                                                         *)
(* One connection is modelled.  An inbound WebSocket message runs its      *)
(* async handler up to the first await; every await of an API call         *)
(* suspends the handler, and the rest of the handler runs when the call    *)
(* resolves.  A suspended handler and the API call it awaits are one       *)
(* record of the set "handlers".                                           *)
(***************************************************************************)
EXTENDS Integers, Sequences, FiniteSets, TLC

VARIABLES
    isSpeaking,            \* conversation.isSpeaking
    audioBuffer,           \* conversation.audioBuffer
    languageCode,          \* conversation.languageCode
    conversationHistory,   \* conversation.conversationHistory
    abortController,       \* conversation.abortController: 0 is null, else a controller
    aborted,               \* the controllers whose abort() has been called
    handlers,              \* suspended message handlers, each awaiting one API call
    sent,                  \* what clientWs.send has sent, in order
    events,                \* the inbound messages handled so far, in order
    limit,                 \* how many inbound messages the run handles
    open,                  \* the connection's socket is open
    hasApiKey,             \* GOOGLE_API_KEY is set: the listeners got registered
    isGeminiConnected,     \* client: isGeminiConnected
    isMicActive,           \* client: isMicActive
    isGeminiSpeaking,      \* client: isGeminiSpeaking
    delivered,             \* client: how many of the sent messages it has handled
    clock,                 \* Date.now()
    conns,                 \* the connections the server has accepted
    table                  \* activeConversations

link == <<open, hasApiKey>>

clientVars == <<isGeminiConnected, isMicActive, isGeminiSpeaking, delivered>>

connVars == <<clock, conns, table>>

outside == <<link, clientVars, connVars>>

vars == <<isSpeaking, audioBuffer, languageCode, conversationHistory,
          abortController, aborted, handlers, sent, events, limit, outside>>

session == <<isSpeaking, audioBuffer, languageCode, conversationHistory,
             abortController, aborted>>

----------------------------------------------------------------------------
(* Bounds *)

MaxEvents == 4

MaxHistEvents == 3

MaxPairs == 6

MaxClientEvents == 3

MaxSamples == 3

MaxFairEvents == 3

MaxWavEvents == 1

MaxConns == 3

MaxClock == 2

----------------------------------------------------------------------------
(* Values *)

HistoryWindow == 10

NoController == 0

DefaultLanguage == <<"e", "n", "-", "I", "N">>

\* message.languageCode of a start_mic message
LanguageInputs ==
    { [isString |-> FALSE, chars |-> <<>>],
      [isString |-> TRUE,  chars |-> <<" ">>],
      [isString |-> TRUE,  chars |-> <<" ", "h", "i", " ">>],
      [isString |-> TRUE,  chars |-> <<"t", "a">>] }

\* A message without a languageCode
NoLanguage == [isString |-> FALSE, chars |-> <<>>]

\* message.audio of an audio_data message
AudioInputs ==
    { [isArray |-> TRUE,  samples |-> <<7>>],
      [isArray |-> TRUE,  samples |-> <<>>],
      [isArray |-> FALSE, samples |-> <<>>] }

\* message.text of a text_message message
TextInputs == {"", "hello"}

\* A text is named by where it comes from: the message (req) that typed it or
\* whose API call returned it, and how that call ended.
TypedText(req) == [kind |-> "typed", req |-> req, outcome |-> "none"]

AudioPart(req) == [kind |-> "audio", req |-> req, outcome |-> "none"]

Turn(role, text) == [role |-> role, text |-> text]

\* JavaScript truthiness of msg.text
Truthy(text) == text.kind # "undefined"

\* String.prototype.trim on a sequence of characters
RECURSIVE TrimLeft(_)
TrimLeft(s) ==
    IF s = <<>> THEN <<>>
    ELSE IF Head(s) = " " THEN TrimLeft(Tail(s)) ELSE s

RECURSIVE TrimRight(_)
TrimRight(s) ==
    IF s = <<>> THEN <<>>
    ELSE IF s[Len(s)] = " " THEN TrimRight(SubSeq(s, 1, Len(s) - 1)) ELSE s

TrimNothing(s) == s

Trim(s) == TrimRight(TrimLeft(s))

\* Array.prototype.slice(-n)
SliceLast(s, n) ==
    IF Len(s) <= n THEN s ELSE SubSeq(s, Len(s) - n + 1, Len(s))

----------------------------------------------------------------------------
(* Outbound messages *)

NoText == [kind |-> "none", req |-> 0, outcome |-> "none"]

Out(type, flag, text) == [type |-> type, flag |-> flag, text |-> text]

ConnectionStatus == Out("connection_status", TRUE, NoText)

\* connection_status of a server without GOOGLE_API_KEY (the flag is hasApiKey)
ConnectionStatusNoKey == Out("connection_status", FALSE, NoText)

GeminiStatus == Out("gemini_status", TRUE, NoText)

MicStatus(started) == Out("mic_status", started, NoText)

InterruptAck == Out("interrupt_ack", TRUE, NoText)

UserMessage(text) == Out("user_message", TRUE, text)

AiResponse(text) == Out("ai_response", TRUE, text)

ErrorEvent == Out("error", TRUE, NoText)

----------------------------------------------------------------------------
(* The API calls *)

OutcomesHang(h) ==
    IF h.ctrl \in aborted THEN {}
    ELSE {"ok", "http", "structure", "notext"}

\* How a call can end: a 2xx answer with a text, a non-2xx answer (or a
\* rejected fetch), a body that is no JSON or lacks candidates[0].content.parts[0],
\* a parts[0] without a text, and an abort through the call's signal.
Outcomes(h) ==
    IF h.ctrl \in aborted THEN {"abort"}
    ELSE {"ok", "http", "structure", "notext"}

Failures == {"http", "structure", "notext", "abort"}

\* callGeminiAPI: contents of the request
ReplyContents(prompt, history) ==
    SliceLast(history, HistoryWindow) \o <<Turn("user", prompt)>>

\* callGeminiAPI: what the call returns to the handler
ReplyResult(req, o) ==
    CASE o = "ok"     -> [kind |-> "reply", req |-> req, outcome |-> o]
      [] o = "notext" -> [kind |-> "undefined", req |-> req, outcome |-> o]
      [] OTHER        -> [kind |-> "apology", req |-> req, outcome |-> o]

KeepTurn(msg) == Truthy(msg.text)

\* processAudioToText: contents of the request
TranscribeContents(req, history) ==
    LET recentHistory == SliceLast(history, HistoryWindow) IN
    SelectSeq(recentHistory, KeepTurn) \o SelectSeq(recentHistory, KeepTurn)
        \o <<Turn("user", AudioPart(req))>>

\* processAudioToText: what the call returns to the handler
TranscribeResult(req, o) ==
    IF o = "ok" THEN [kind |-> "transcript", req |-> req, outcome |-> o]
    ELSE [kind |-> "audio_apology", req |-> req, outcome |-> o]

----------------------------------------------------------------------------
(* The audio clip *)

SampleRate == 16000

\* Buffer.write of a four-character tag, as ASCII bytes
TagRIFF == <<82, 73, 70, 70>>

TagWAVE == <<87, 65, 86, 69>>

TagFmt == <<102, 109, 116, 32>>

TagData == <<100, 97, 116, 97>>

\* Buffer.writeUInt16LE
WriteUInt16LE(n) == <<n % 256, (n \div 256) % 256>>

\* Buffer.writeUInt32LE
WriteUInt32LE(n) ==
    <<n % 256, (n \div 256) % 256, (n \div 65536) % 256, (n \div 16777216) % 256>>

WriteInt16BE(v) == <<((v % 65536) \div 256) % 256, (v % 65536) % 256>>

\* Buffer.writeInt16LE: two's complement, low byte first
WriteInt16LE(v) == <<(v % 65536) % 256, ((v % 65536) \div 256) % 256>>

\* Int16Array.from: each number wrapped into the int16 range
ToInt16(v) == ((v + 32768) % 65536) - 32768

Int16ArrayFrom(samples) == [i \in DOMAIN samples |-> ToInt16(samples[i])]

RECURSIVE WriteSamples(_)
WriteSamples(int16Array) ==
    IF int16Array = <<>> THEN <<>>
    ELSE WriteInt16LE(Head(int16Array)) \o WriteSamples(Tail(int16Array))

\* encodeWavFromPCM16: the bytes of the clip
EncodeWavFromPCM16(int16Array, sampleRate) ==
    LET numFrames == Len(int16Array)
        bytesPerSample == 2
        blockAlign == bytesPerSample * 1
        byteRate == sampleRate * blockAlign
        dataSize == numFrames * bytesPerSample
    IN  TagRIFF \o WriteUInt32LE(36 + dataSize) \o TagWAVE \o TagFmt
        \o WriteUInt32LE(16) \o WriteUInt16LE(1) \o WriteUInt16LE(1)
        \o WriteUInt32LE(sampleRate) \o WriteUInt32LE(byteRate)
        \o WriteUInt16LE(blockAlign) \o WriteUInt16LE(16)
        \o TagData \o WriteUInt32LE(dataSize)
        \o WriteSamples(int16Array)

\* processAudioToText: the clip made of the buffered samples
WavOf(audioInt16) == EncodeWavFromPCM16(Int16ArrayFrom(audioInt16), SampleRate)

\* A handler suspended on the API call it has issued
Call(req, path, stage, ctrl, contents, histLen, audio) ==
    [req |-> req, path |-> path, stage |-> stage, ctrl |-> ctrl,
     contents |-> contents, histLen |-> histLen, audio |-> audio]

----------------------------------------------------------------------------
(* Inbound messages *)

InFlight == {h.req : h \in handlers}

\* The record of one handled message: what was the case when it arrived,
\* and whether its handler issued an API call.
Ev(type, issued, arg) ==
    [type |-> type, issued |-> issued, arg |-> arg, mic |-> isSpeaking,
     inflight |-> InFlight, sentBefore |-> Len(sent), lang |-> NoLanguage]

\* What an audio_data message carries: the number of samples, -1 if no array
Carried(a) == IF a.isArray THEN Len(a.samples) ELSE -1

\* Whether a text_message carries a text: 1 if message.text is truthy
TextArg(t) == IF t # "" THEN 1 ELSE 0

NextReq == Len(events) + 1

AbortNothing == aborted

\* conversation.abortController.abort(), when there is a controller
Abort == aborted \cup ({abortController} \ {NoController})

ReceivingWhenIdle == open /\ hasApiKey /\ handlers = {}

\* The message listener is registered and the socket is open
Receiving == open /\ hasApiKey

\* The client before it has handled any message of the server
ClientInit ==
    /\ isGeminiConnected = FALSE
    /\ isMicActive = FALSE
    /\ isGeminiSpeaking = FALSE
    /\ delivered = 0

\* One accepted connection, the one whose session the model follows
OneConnection ==
    /\ clock = 0
    /\ conns = <<>>
    /\ table = <<>>

Init ==
    /\ open = TRUE
    /\ hasApiKey = TRUE
    /\ ClientInit
    /\ OneConnection
    /\ isSpeaking = FALSE
    /\ audioBuffer = <<>>
    /\ languageCode = DefaultLanguage
    /\ conversationHistory = <<>>
    /\ abortController = NoController
    /\ aborted = {}
    /\ handlers = {}
    /\ sent = <<ConnectionStatus, GeminiStatus>>
    /\ events = <<>>
    /\ limit = MaxEvents

\* A session that has already exchanged k typed messages and their replies
RECURSIVE Exchanged(_)
Exchanged(k) ==
    IF k = 0 THEN <<>>
    ELSE Exchanged(k - 1) \o
         <<Turn("user", TypedText(0 - k)),
           Turn("model", [kind |-> "reply", req |-> 0 - k, outcome |-> "ok"])>>

InitHist ==
    /\ open = TRUE
    /\ hasApiKey = TRUE
    /\ ClientInit
    /\ OneConnection
    /\ isSpeaking = FALSE
    /\ audioBuffer = <<>>
    /\ languageCode = DefaultLanguage
    /\ \E k \in 0..MaxPairs :
         /\ conversationHistory = Exchanged(k)
         /\ abortController = (IF k = 0 THEN NoController ELSE 0 - k)
         /\ aborted = {0 - j : j \in 1..(k - 1)}
    /\ handlers = {}
    /\ sent = <<ConnectionStatus, GeminiStatus>>
    /\ events = <<>>
    /\ limit = MaxHistEvents

\* int16 samples an audio_data message can carry
SampleInputs == {0 - 32768, 0 - 1, 0, 256, 32767}

RECURSIVE SampleSeqs(_)
SampleSeqs(n) ==
    IF n = 0 THEN {<<>>}
    ELSE SampleSeqs(n - 1)
         \cup {Append(x, v) : x \in {y \in SampleSeqs(n - 1) : Len(y) = n - 1},
                              v \in SampleInputs}

\* A session that is listening: start_mic has been handled and audio_data
\* messages (left out of events) have filled the buffer
InitWav ==
    /\ open = TRUE
    /\ hasApiKey = TRUE
    /\ ClientInit
    /\ OneConnection
    /\ isSpeaking = TRUE
    /\ audioBuffer \in SampleSeqs(MaxSamples)
    /\ languageCode = DefaultLanguage
    /\ conversationHistory = <<>>
    /\ abortController = NoController
    /\ aborted = {}
    /\ handlers = {}
    /\ sent = <<ConnectionStatus, GeminiStatus, MicStatus(TRUE)>>
    /\ events = <<[type |-> "start_mic", issued |-> FALSE, arg |-> 0,
                   mic |-> FALSE, inflight |-> {}, sentBefore |-> 2,
                   lang |-> NoLanguage]>>
    /\ limit = 1 + MaxWavEvents

\* A connection accepted by a server that has no GOOGLE_API_KEY: the handler
\* of 'connection' returns before it registers any listener
InitNoKey ==
    /\ open = TRUE
    /\ hasApiKey = FALSE
    /\ ClientInit
    /\ OneConnection
    /\ isSpeaking = FALSE
    /\ audioBuffer = <<>>
    /\ languageCode = DefaultLanguage
    /\ conversationHistory = <<>>
    /\ abortController = NoController
    /\ aborted = {}
    /\ handlers = {}
    /\ sent = <<ConnectionStatusNoKey, ErrorEvent>>
    /\ events = <<>>
    /\ limit = MaxEvents

\* What a client can send: the type, and what Ev records of the payload
InboundMessages ==
    {[type |-> "start_mic", arg |-> 0], [type |-> "stop_mic", arg |-> 0],
     [type |-> "interrupt", arg |-> 0], [type |-> "malformed", arg |-> 0]}
    \cup {[type |-> "audio_data", arg |-> Carried(a)] : a \in AudioInputs}
    \cup {[type |-> "text_message", arg |-> TextArg(t)] : t \in TextInputs}

\* A message arrives on a socket that has no 'message' listener
Unheard(m) ==
    /\ open
    /\ ~hasApiKey
    /\ Len(events) < limit
    /\ events' = Append(events, Ev(m.type, FALSE, m.arg))
    /\ UNCHANGED <<session, handlers, sent, limit, outside>>

StartMicCancels(lc) ==
    /\ Receiving
    /\ Len(events) < limit
    /\ isSpeaking' = TRUE
    /\ audioBuffer' = <<>>
    /\ languageCode' =
         IF lc.isString /\ Trim(lc.chars) # <<>> THEN Trim(lc.chars)
         ELSE languageCode
    /\ sent' = Append(sent, MicStatus(TRUE))
    /\ events' = Append(events, [Ev("start_mic", FALSE, 0) EXCEPT !.lang = lc])
    /\ aborted' = Abort
    /\ UNCHANGED <<conversationHistory, abortController, handlers, limit, outside>>

StartMic(lc) ==
    /\ Receiving
    /\ Len(events) < limit
    /\ isSpeaking' = TRUE
    /\ audioBuffer' = <<>>
    /\ languageCode' =
         IF lc.isString /\ Trim(lc.chars) # <<>> THEN Trim(lc.chars)
         ELSE languageCode
    /\ sent' = Append(sent, MicStatus(TRUE))
    /\ events' = Append(events, [Ev("start_mic", FALSE, 0) EXCEPT !.lang = lc])
    /\ UNCHANGED <<conversationHistory, abortController, aborted, handlers, limit, outside>>

StopMicAnyBuffer ==
    /\ Receiving
    /\ Len(events) < limit
    /\ IF isSpeaking
       THEN /\ isSpeaking' = FALSE
            /\ aborted' = Abort
            /\ abortController' = NextReq
            /\ handlers' = handlers \cup
                 {Call(NextReq, "stop_mic", "transcribe", NextReq,
                       TranscribeContents(NextReq, conversationHistory),
                       Len(conversationHistory), WavOf(audioBuffer))}
            /\ events' = Append(events, Ev("stop_mic", TRUE, 0))
            /\ UNCHANGED sent
       ELSE /\ events' = Append(events, Ev("stop_mic", FALSE, 0))
            /\ UNCHANGED <<isSpeaking, aborted, abortController, handlers, sent>>
    /\ UNCHANGED <<audioBuffer, languageCode, conversationHistory, limit, outside>>

StopMic ==
    /\ Receiving
    /\ Len(events) < limit
    /\ IF isSpeaking
       THEN /\ isSpeaking' = FALSE
            /\ IF Len(audioBuffer) > 0
               THEN /\ aborted' = Abort
                    /\ abortController' = NextReq
                    /\ handlers' = handlers \cup
                         {Call(NextReq, "stop_mic", "transcribe", NextReq,
                               TranscribeContents(NextReq, conversationHistory),
                               Len(conversationHistory), WavOf(audioBuffer))}
                    /\ events' = Append(events, Ev("stop_mic", TRUE, 0))
                    /\ UNCHANGED sent
               ELSE /\ sent' = Append(sent, MicStatus(FALSE))
                    /\ events' = Append(events, Ev("stop_mic", FALSE, 0))
                    /\ UNCHANGED <<aborted, abortController, handlers>>
       ELSE /\ events' = Append(events, Ev("stop_mic", FALSE, 0))
            /\ UNCHANGED <<isSpeaking, aborted, abortController, handlers, sent>>
    /\ UNCHANGED <<audioBuffer, languageCode, conversationHistory, limit, outside>>

InterruptKeepsBuffer ==
    /\ Receiving
    /\ Len(events) < limit
    /\ isSpeaking' = FALSE
    /\ aborted' = Abort
    /\ sent' = sent \o <<InterruptAck, MicStatus(FALSE)>>
    /\ events' = Append(events, Ev("interrupt", FALSE, 0))
    /\ UNCHANGED <<audioBuffer, languageCode, conversationHistory,
                   abortController, handlers, limit, outside>>

Interrupt ==
    /\ Receiving
    /\ Len(events) < limit
    /\ isSpeaking' = FALSE
    /\ audioBuffer' = <<>>
    /\ aborted' = Abort
    /\ sent' = sent \o <<InterruptAck, MicStatus(FALSE)>>
    /\ events' = Append(events, Ev("interrupt", FALSE, 0))
    /\ UNCHANGED <<languageCode, conversationHistory, abortController, handlers, limit, outside>>

AudioDataUnguarded(a) ==
    /\ Receiving
    /\ Len(events) < limit
    /\ audioBuffer' = IF a.isArray THEN audioBuffer \o a.samples ELSE audioBuffer
    /\ events' = Append(events, Ev("audio_data", FALSE, Carried(a)))
    /\ UNCHANGED <<isSpeaking, languageCode, conversationHistory,
                   abortController, aborted, handlers, sent, limit, outside>>

AudioData(a) ==
    /\ Receiving
    /\ Len(events) < limit
    /\ audioBuffer' =
         IF isSpeaking /\ a.isArray THEN audioBuffer \o a.samples
         ELSE audioBuffer
    /\ events' = Append(events, Ev("audio_data", FALSE, Carried(a)))
    /\ UNCHANGED <<isSpeaking, languageCode, conversationHistory,
                   abortController, aborted, handlers, sent, limit, outside>>

TextMessageTrims(t) ==
    /\ Receiving
    /\ Len(events) < limit
    /\ IF t # ""
       THEN LET history == Append(conversationHistory,
                                  Turn("user", TypedText(NextReq))) IN
            /\ conversationHistory' = SliceLast(history, HistoryWindow)
            /\ sent' = Append(sent, UserMessage(TypedText(NextReq)))
            /\ aborted' = Abort
            /\ abortController' = NextReq
            /\ handlers' = handlers \cup
                 {Call(NextReq, "text_message", "reply", NextReq,
                       ReplyContents(TypedText(NextReq), history),
                       Len(history), <<>>)}
            /\ events' = Append(events, Ev("text_message", TRUE, TextArg(t)))
       ELSE /\ events' = Append(events, Ev("text_message", FALSE, TextArg(t)))
            /\ UNCHANGED <<conversationHistory, sent, aborted, abortController,
                           handlers>>
    /\ UNCHANGED <<isSpeaking, audioBuffer, languageCode, limit, outside>>

TextMessageCallFirst(t) ==
    /\ Receiving
    /\ Len(events) < limit
    /\ IF t # ""
       THEN LET history == Append(conversationHistory,
                                  Turn("user", TypedText(NextReq))) IN
            /\ conversationHistory' = history
            /\ sent' = Append(sent, UserMessage(TypedText(NextReq)))
            /\ aborted' = Abort
            /\ abortController' = NextReq
            /\ handlers' = handlers \cup
                 {Call(NextReq, "text_message", "reply", NextReq,
                       ReplyContents(TypedText(NextReq), conversationHistory),
                       Len(conversationHistory), <<>>)}
            /\ events' = Append(events, Ev("text_message", TRUE, TextArg(t)))
       ELSE /\ events' = Append(events, Ev("text_message", FALSE, TextArg(t)))
            /\ UNCHANGED <<conversationHistory, sent, aborted, abortController,
                           handlers>>
    /\ UNCHANGED <<isSpeaking, audioBuffer, languageCode, limit, outside>>

TextMessage(t) ==
    /\ Receiving
    /\ Len(events) < limit
    /\ IF t # ""
       THEN LET history == Append(conversationHistory,
                                  Turn("user", TypedText(NextReq))) IN
            /\ conversationHistory' = history
            /\ sent' = Append(sent, UserMessage(TypedText(NextReq)))
            /\ aborted' = Abort
            /\ abortController' = NextReq
            /\ handlers' = handlers \cup
                 {Call(NextReq, "text_message", "reply", NextReq,
                       ReplyContents(TypedText(NextReq), history),
                       Len(history), <<>>)}
            /\ events' = Append(events, Ev("text_message", TRUE, TextArg(t)))
       ELSE /\ events' = Append(events, Ev("text_message", FALSE, TextArg(t)))
            /\ UNCHANGED <<conversationHistory, sent, aborted, abortController,
                           handlers>>
    /\ UNCHANGED <<isSpeaking, audioBuffer, languageCode, limit, outside>>

MalformedStopsMic ==
    /\ Receiving
    /\ Len(events) < limit
    /\ isSpeaking' = FALSE
    /\ sent' = Append(sent, ErrorEvent)
    /\ events' = Append(events, Ev("malformed", FALSE, 0))
    /\ UNCHANGED <<audioBuffer, languageCode, conversationHistory,
                   abortController, aborted, handlers, limit, outside>>

\* A message that JSON.parse rejects
Malformed ==
    /\ Receiving
    /\ Len(events) < limit
    /\ sent' = Append(sent, ErrorEvent)
    /\ events' = Append(events, Ev("malformed", FALSE, 0))
    /\ UNCHANGED <<session, handlers, limit, outside>>

\* The socket closes: clientWs.on('close') deletes the session from
\* activeConversations; the handlers that are suspended keep their reference
\* to the conversation object and are not told.
Close ==
    /\ open
    /\ open' = FALSE
    /\ UNCHANGED <<session, handlers, sent, events, limit, hasApiKey,
                   clientVars, connVars>>

----------------------------------------------------------------------------
(* The handlers' continuations *)

\* clientWs.send: a socket that is no longer open delivers nothing
Send(msgs) == IF open THEN sent \o msgs ELSE sent

TranscriptionReturnsAudioPrompt(h, o) ==
    /\ h \in handlers
    /\ h.stage = "transcribe"
    /\ o \in Outcomes(h)
    /\ LET userText == TranscribeResult(h.req, o)
           history == Append(conversationHistory, Turn("user", userText)) IN
       /\ conversationHistory' = history
       /\ sent' = Send(<<UserMessage(userText)>>)
       /\ \/ handlers' = (handlers \ {h}) \cup
               {Call(h.req, h.path, "reply", abortController,
                     ReplyContents(AudioPart(h.req), history), Len(history), h.audio)}
          \* a ws release whose send throws on a closed socket ends the handler
          \/ /\ ~open
             /\ handlers' = handlers \ {h}
    /\ UNCHANGED <<isSpeaking, audioBuffer, languageCode, abortController,
                   aborted, events, limit, outside>>

\* stop_mic, after await processAudioToText
TranscriptionReturns(h, o) ==
    /\ h \in handlers
    /\ h.stage = "transcribe"
    /\ o \in Outcomes(h)
    /\ LET userText == TranscribeResult(h.req, o)
           history == Append(conversationHistory, Turn("user", userText)) IN
       /\ conversationHistory' = history
       /\ sent' = Send(<<UserMessage(userText)>>)
       /\ \/ handlers' = (handlers \ {h}) \cup
               {Call(h.req, h.path, "reply", abortController,
                     ReplyContents(userText, history), Len(history), h.audio)}
          \* a ws release whose send throws on a closed socket ends the handler
          \/ /\ ~open
             /\ handlers' = handlers \ {h}
    /\ UNCHANGED <<isSpeaking, audioBuffer, languageCode, abortController,
                   aborted, events, limit, outside>>

VoiceReplyStatusFirst(h, o) ==
    /\ h \in handlers
    /\ h.stage = "reply"
    /\ h.path = "stop_mic"
    /\ o \in Outcomes(h)
    /\ LET aiResponse == ReplyResult(h.req, o) IN
       /\ conversationHistory' = Append(conversationHistory, Turn("model", aiResponse))
       /\ sent' = Send(<<MicStatus(FALSE), AiResponse(aiResponse)>>)
    /\ handlers' = handlers \ {h}
    /\ UNCHANGED <<isSpeaking, audioBuffer, languageCode, abortController,
                   aborted, events, limit, outside>>

VoiceReplyReturnsNoTurn(h, o) ==
    /\ h \in handlers
    /\ h.stage = "reply"
    /\ h.path = "stop_mic"
    /\ o \in Outcomes(h)
    /\ LET aiResponse == ReplyResult(h.req, o) IN
       /\ conversationHistory' = conversationHistory
       /\ sent' = Send(<<AiResponse(aiResponse), MicStatus(FALSE)>>)
    /\ handlers' = handlers \ {h}
    /\ UNCHANGED <<isSpeaking, audioBuffer, languageCode, abortController,
                   aborted, events, limit, outside>>

\* stop_mic, after await callGeminiAPI
VoiceReplyReturns(h, o) ==
    /\ h \in handlers
    /\ h.stage = "reply"
    /\ h.path = "stop_mic"
    /\ o \in Outcomes(h)
    /\ LET aiResponse == ReplyResult(h.req, o) IN
       /\ conversationHistory' = Append(conversationHistory, Turn("model", aiResponse))
       /\ sent' = Send(<<AiResponse(aiResponse), MicStatus(FALSE)>>)
    /\ handlers' = handlers \ {h}
    /\ UNCHANGED <<isSpeaking, audioBuffer, languageCode, abortController,
                   aborted, events, limit, outside>>

TextReplyReturnsNoTurn(h, o) ==
    /\ h \in handlers
    /\ h.stage = "reply"
    /\ h.path = "text_message"
    /\ o \in Outcomes(h)
    /\ LET response == ReplyResult(h.req, o) IN
       /\ conversationHistory' = conversationHistory
       /\ sent' = Send(<<AiResponse(response)>>)
    /\ handlers' = handlers \ {h}
    /\ UNCHANGED <<isSpeaking, audioBuffer, languageCode, abortController,
                   aborted, events, limit, outside>>

\* text_message, after await callGeminiAPI
TextReplyReturns(h, o) ==
    /\ h \in handlers
    /\ h.stage = "reply"
    /\ h.path = "text_message"
    /\ o \in Outcomes(h)
    /\ LET response == ReplyResult(h.req, o) IN
       /\ conversationHistory' = Append(conversationHistory, Turn("model", response))
       /\ sent' = Send(<<AiResponse(response)>>)
    /\ handlers' = handlers \ {h}
    /\ UNCHANGED <<isSpeaking, audioBuffer, languageCode, abortController,
                   aborted, events, limit, outside>>

AllOutcomes == {"ok"} \cup Failures

Next ==
    \/ \E lc \in LanguageInputs : StartMic(lc)
    \/ StopMic
    \/ Interrupt
    \/ \E a \in AudioInputs : AudioData(a)
    \/ \E t \in TextInputs : TextMessage(t)
    \/ Malformed
    \/ \E h \in handlers, o \in AllOutcomes : TranscriptionReturns(h, o)
    \/ \E h \in handlers, o \in AllOutcomes : VoiceReplyReturns(h, o)
    \/ \E h \in handlers, o \in AllOutcomes : TextReplyReturns(h, o)

Spec == Init /\ [][Next]_vars

\* A fresh session that takes a bounded number of messages
InitFair ==
    /\ open = TRUE
    /\ hasApiKey = TRUE
    /\ ClientInit
    /\ OneConnection
    /\ isSpeaking = FALSE
    /\ audioBuffer = <<>>
    /\ languageCode = DefaultLanguage
    /\ conversationHistory = <<>>
    /\ abortController = NoController
    /\ aborted = {}
    /\ handlers = {}
    /\ sent = <<ConnectionStatus, GeminiStatus>>
    /\ events = <<>>
    /\ limit = MaxFairEvents

\* Every issued call resolves and the continuation of its handler is run:
\* the fetch settles and the event loop resumes the awaiting handler
Resolving ==
    /\ WF_vars(\E h \in handlers, o \in AllOutcomes : TranscriptionReturns(h, o))
    /\ WF_vars(\E h \in handlers, o \in AllOutcomes : VoiceReplyReturns(h, o))
    /\ WF_vars(\E h \in handlers, o \in AllOutcomes : TextReplyReturns(h, o))

SpecFair == InitFair /\ [][Next]_vars /\ Resolving

NextLife == Next \/ Close

\* The session from the accepted connection to after its close
SpecLife == Init /\ [][NextLife]_vars

----------------------------------------------------------------------------
(* The table of sessions, for several connections *)

\* A connection, as the 'connection' handler's closure holds it: its clientId,
\* whether its socket is open, and what its message handlers came to work on:
\* the conversation objects (named by the connection that created them), and
\* whether a handler found no conversation under its clientId.
Connection(clientId) ==
    [clientId |-> clientId, open |-> TRUE, used |-> {}, failed |-> FALSE]

\* Map.prototype.delete
MapDelete(map, key) == [k \in DOMAIN map \ {key} |-> map[k]]

\* Map.prototype.set
MapSet(map, key, value) ==
    [k \in DOMAIN map \cup {key} |-> IF k = key THEN value ELSE map[k]]

InitConn ==
    /\ hasApiKey \in BOOLEAN
    /\ clock = 0
    /\ conns = <<>>
    /\ table = <<>>
    /\ open = TRUE
    /\ ClientInit
    /\ isSpeaking = FALSE
    /\ audioBuffer = <<>>
    /\ languageCode = DefaultLanguage
    /\ conversationHistory = <<>>
    /\ abortController = NoController
    /\ aborted = {}
    /\ handlers = {}
    /\ sent = <<>>
    /\ events = <<>>
    /\ limit = 0

detail == <<session, handlers, sent, events, limit, open, clientVars>>

\* The millisecond clock advances
Tick ==
    /\ clock < MaxClock
    /\ clock' = clock + 1
    /\ UNCHANGED <<conns, table, hasApiKey, detail>>

\* wss.on('connection'): the session is stored under Date.now().toString()
Accept ==
    /\ Len(conns) < MaxConns
    /\ conns' = Append(conns, Connection(clock))
    /\ table' = MapSet(table, clock, Len(conns) + 1)
    /\ UNCHANGED <<clock, hasApiKey, detail>>

\* The socket of connection c closes; clientWs.on('close') is registered only
\* when the server has its API key
CloseConn(c) ==
    /\ conns[c].open
    /\ conns' = [conns EXCEPT ![c].open = FALSE]
    /\ table' = IF hasApiKey THEN MapDelete(table, conns[c].clientId) ELSE table
    /\ UNCHANGED <<clock, hasApiKey, detail>>

\* A message arrives on connection c: its handler works on
\* activeConversations.get(clientId), and throws a TypeError if there is none
Handle(c) ==
    /\ conns[c].open
    /\ hasApiKey
    /\ conns' =
         IF conns[c].clientId \in DOMAIN table
         THEN [conns EXCEPT ![c].used = @ \cup {table[conns[c].clientId]}]
         ELSE [conns EXCEPT ![c].failed = TRUE]
    /\ UNCHANGED <<clock, table, hasApiKey, detail>>

NextConn ==
    \/ Tick
    \/ Accept
    \/ \E c \in DOMAIN conns : CloseConn(c)
    \/ \E c \in DOMAIN conns : Handle(c)

\* The server and the connections it accepts
SpecConn == InitConn /\ [][NextConn]_vars

----------------------------------------------------------------------------
(* The browser client (public/main.js) on the connection *)

\* The session with the page just loaded and connected
InitClient ==
    /\ open = TRUE
    /\ hasApiKey = TRUE
    /\ ClientInit
    /\ OneConnection
    /\ isSpeaking = FALSE
    /\ audioBuffer = <<>>
    /\ languageCode = DefaultLanguage
    /\ conversationHistory = <<>>
    /\ abortController = NoController
    /\ aborted = {}
    /\ handlers = {}
    /\ sent = <<ConnectionStatus, GeminiStatus>>
    /\ events = <<>>
    /\ limit = MaxClientEvents

\* updateButtonStates: which buttons can be clicked (isConnected holds
\* from ws.onopen to ws.onclose)
StartEnabled == open /\ isGeminiConnected /\ ~isMicActive

StopEnabled == open /\ isGeminiConnected /\ isMicActive

InterruptEnabled == open /\ isGeminiConnected /\ isGeminiSpeaking

\* handleServerMessage, on the next message of the server
ClientReceive ==
    /\ delivered < Len(sent)
    /\ LET message == sent[delivered + 1] IN
       /\ isGeminiConnected' =
            IF message.type = "gemini_status" THEN message.flag
            ELSE isGeminiConnected
       /\ isMicActive' =
            IF message.type = "mic_status" THEN message.flag ELSE isMicActive
       /\ isGeminiSpeaking' =
            CASE message.type = "interrupt_ack" /\ message.flag -> FALSE
              [] message.type = "ai_response" -> TRUE
              [] OTHER -> isGeminiSpeaking
    /\ delivered' = delivered + 1
    /\ UNCHANGED <<session, handlers, sent, events, limit, link, connVars>>

\* speechUtterance.onend
SpeechEnds ==
    /\ isGeminiSpeaking
    /\ isGeminiSpeaking' = FALSE
    /\ UNCHANGED <<session, handlers, sent, events, limit, link, connVars,
                   isGeminiConnected, isMicActive, delivered>>

\* What the client puts into start_mic: langInput.value || 'en', a string
ClientLanguages == {lc \in LanguageInputs : lc.isString}

\* startMic: the click on Start, the message handled by the server
ClickStart(lc) == StartEnabled /\ StartMic(lc)

\* stopMic: the click on Stop
ClickStop == StopEnabled /\ StopMic

\* onaudioprocess: a chunk of samples while the client believes the mic on
ClientAudio(a) == isMicActive /\ a.isArray /\ AudioData(a)

\* sendTextMessage: the trimmed text, unless it is empty
ClickSend(t) == t # "" /\ TextMessage(t)

\* interrupt: the click on Interrupt, which only an enabled button takes, and
\* which sends the interrupt message if isGeminiSpeaking
ClickInterrupt == InterruptEnabled /\ isGeminiSpeaking /\ Interrupt

NextClient ==
    \/ \E lc \in ClientLanguages : ClickStart(lc)
    \/ ClickStop
    \/ \E a \in AudioInputs : ClientAudio(a)
    \/ \E t \in TextInputs : ClickSend(t)
    \/ ClickInterrupt
    \/ ClientReceive
    \/ SpeechEnds
    \/ \E h \in handlers, o \in AllOutcomes : TranscriptionReturns(h, o)
    \/ \E h \in handlers, o \in AllOutcomes : VoiceReplyReturns(h, o)
    \/ \E h \in handlers, o \in AllOutcomes : TextReplyReturns(h, o)

\* The server's session driven by the browser client
SpecClient == InitClient /\ [][NextClient]_vars

\* The session with samples buffered, up to the clip of its stop_mic
SpecWav == InitWav /\ [][Next]_vars

NextNoKey == \E m \in InboundMessages : Unheard(m)

\* A connection to a server without GOOGLE_API_KEY
SpecNoKey == InitNoKey /\ [][NextNoKey]_vars

\* The same session, late in a conversation
SpecHist == InitHist /\ [][Next]_vars

----------------------------------------------------------------------------
(* Vocabulary of the properties *)

\* The step handles an inbound message of this type
StepOf(type) ==
    /\ Len(events') = Len(events) + 1
    /\ events'[Len(events')].type = type

\* Calls that are issued, unresolved and not cancelled
Outstanding == {h \in handlers : h.ctrl \notin aborted}

\* No request is pending: the handle, if any, is cancelled, and so is every call
NoPendingRequest ==
    /\ abortController = NoController \/ abortController \in aborted
    /\ Outstanding = {}

Idle == ~isSpeaking /\ audioBuffer = <<>> /\ NoPendingRequest

SentSince(n) == SubSeq(sent, n + 1, Len(sent))

Count(s, x) == Cardinality({i \in DOMAIN s : s[i] = x})

\* An ai_response for request r has been sent
Answered(r) ==
    \E i \in DOMAIN sent : sent[i].type = "ai_response" /\ sent[i].text.req = r

\* A model turn for request r is in the history
ModelTurnOf(r) ==
    \E i \in DOMAIN conversationHistory :
        /\ conversationHistory[i].role = "model"
        /\ conversationHistory[i].text.req = r

----------------------------------------------------------------------------
(* C1 *)

\* C1: in every reachable state at most one API call of the session is
\* outstanding (issued, not resolved, not cancelled).
C1_AtMostOneOutstanding == Cardinality(Outstanding) <= 1

----------------------------------------------------------------------------
(* C2 *)

\* C2: a text_message directly followed by an interrupt that arrives while the
\* call of the text_message is unresolved never gets an ai_response or a model
\* turn, and the interrupt handler sends interrupt_ack at once.
C2_InterruptedTextNeverAnswered ==
    \A i \in 1..(Len(events) - 1) :
        ( /\ events[i].type = "text_message"
          /\ events[i].issued
          /\ events[i + 1].type = "interrupt"
          /\ i \in events[i + 1].inflight )
        => /\ ~Answered(i)
           /\ ~ModelTurnOf(i)
           /\ sent[events[i + 1].sentBefore + 1] = InterruptAck

----------------------------------------------------------------------------
(* C3 *)

\* C3: the result of a call that was pending when a later text_message or
\* stop_mic issued its own call is discarded: no model turn and no ai_response
\* of the superseded request appears.
C3_SupersededResultDiscarded ==
    \A j \in DOMAIN events :
        events[j].issued =>
            \A r \in events[j].inflight : ~Answered(r) /\ ~ModelTurnOf(r)

----------------------------------------------------------------------------
(* C4 *)

\* C4: an audio_data message handled while isSpeaking is false leaves the
\* audio buffer as it was.
C4_AudioDroppedWhenMicOff ==
    [][(StepOf("audio_data") /\ ~isSpeaking) => audioBuffer' = audioBuffer]_vars

\* Samples arrived with the mic off while a generation call was in flight
C4_Witness ==
    \E i \in DOMAIN events :
        /\ events[i].type = "audio_data"
        /\ events[i].arg > 0
        /\ ~events[i].mic
        /\ events[i].inflight # {}

----------------------------------------------------------------------------
(* C5 *)

\* C5: every interrupt sends exactly one interrupt_ack and leaves the session
\* Idle (mic off, buffer empty, no pending request); an interrupt that follows
\* an interrupt changes nothing in the session.
C5_InterruptIdempotent ==
    [][StepOf("interrupt") =>
        /\ Count(sent', InterruptAck) = Count(sent, InterruptAck) + 1
        /\ Idle'
        /\ (events # <<>> /\ events[Len(events)].type = "interrupt")
             => UNCHANGED <<session, handlers>>]_vars

\* Two interrupts in a row, the first with a call in flight and samples buffered
C5_Witness ==
    \E i \in 1..(Len(events) - 1) :
        /\ events[i].type = "interrupt"
        /\ events[i + 1].type = "interrupt"
        /\ events[i].inflight # {}
        /\ events[i].mic
        /\ Count(sent, InterruptAck) = 2

----------------------------------------------------------------------------
(* C6 *)

\* What a voice turn of request r has sent from its start_mic on, by how far
\* its handler has come
VoiceTurnSent(r, out) ==
    IF \E h \in handlers : h.req = r /\ h.stage = "transcribe"
    THEN out = <<MicStatus(TRUE)>>
    ELSE IF \E h \in handlers : h.req = r /\ h.stage = "reply"
    THEN /\ Len(out) = 2
         /\ out[1] = MicStatus(TRUE)
         /\ \E o \in AllOutcomes : out[2] = UserMessage(TranscribeResult(r, o))
    ELSE /\ Len(out) = 4
         /\ out[1] = MicStatus(TRUE)
         /\ \E o \in AllOutcomes : out[2] = UserMessage(TranscribeResult(r, o))
         /\ \E o \in AllOutcomes : out[3] = AiResponse(ReplyResult(r, o))
         /\ out[4] = MicStatus(FALSE)

\* C6: start_mic, audio_data with samples, stop_mic on a session with no call
\* in flight, and nothing after: the session sends mic_status{started:true},
\* then user_message with what the transcription call returned, then
\* ai_response with what the reply call returned, then mic_status{started:false},
\* the two messages only once the respective call has resolved.
C6_VoiceTurnOrder ==
    \A k \in 1..(Len(events) - 2) :
        ( /\ Len(events) = k + 2
          /\ events[k].type = "start_mic"
          /\ events[k].inflight = {}
          /\ events[k + 1].type = "audio_data"
          /\ events[k + 1].arg > 0
          /\ events[k + 2].type = "stop_mic" )
        => VoiceTurnSent(k + 2, SentSince(events[k].sentBefore))

\* A whole voice turn, both calls answered with a text
C6_Witness ==
    /\ Len(events) = 3
    /\ events[1].type = "start_mic"
    /\ events[2].type = "audio_data"
    /\ events[3].type = "stop_mic"
    /\ sent = <<ConnectionStatus, GeminiStatus, MicStatus(TRUE),
                UserMessage(TranscribeResult(3, "ok")),
                AiResponse(ReplyResult(3, "ok")), MicStatus(FALSE)>>

----------------------------------------------------------------------------
(* C7 *)

\* C7: a stop_mic that finds the mic on and no buffered sample turns the mic
\* off, sends mic_status{started:false} and nothing else, issues no call and
\* leaves the history alone.
C7_EmptyUtterance ==
    [][(StepOf("stop_mic") /\ isSpeaking /\ audioBuffer = <<>>) =>
        /\ sent' = Append(sent, MicStatus(FALSE))
        /\ ~isSpeaking'
        /\ UNCHANGED <<handlers, conversationHistory, abortController, aborted>>]_vars

\* start_mic directly followed by stop_mic, answered by the one mic_status
C7_Witness ==
    \E k \in 1..(Len(events) - 1) :
        /\ Len(events) = k + 1
        /\ events[k].type = "start_mic"
        /\ events[k + 1].type = "stop_mic"
        /\ events[k + 1].mic
        /\ SentSince(events[k + 1].sentBefore) = <<MicStatus(FALSE)>>
        /\ ~isSpeaking

----------------------------------------------------------------------------
(* C8 *)

\* C8: when a request is built from a history of more than 10 turns, the
\* history replayed in the request is exactly the 10 most recent turns.
C8_ContextIsLastTen ==
    \A h \in handlers :
        h.histLen > HistoryWindow =>
            SubSeq(h.contents, 1, Len(h.contents) - 1)
              = SliceLast(SubSeq(conversationHistory, 1, h.histLen), HistoryWindow)

----------------------------------------------------------------------------
(* C9 *)

\* C9: a message that cannot be parsed makes the server send one error event
\* and changes nothing in the session, nor in the calls in flight.
C9_MalformedOnlyReports ==
    [][StepOf("malformed") =>
        /\ sent' = Append(sent, ErrorEvent)
        /\ UNCHANGED <<session, handlers>>]_vars

\* An unparseable message arrived with the mic on and a call in flight
C9_Witness ==
    \E i \in DOMAIN events :
        /\ events[i].type = "malformed"
        /\ events[i].inflight # {}
        /\ events[i].mic
        /\ sent[events[i].sentBefore + 1] = ErrorEvent

----------------------------------------------------------------------------
(* C10 *)

\* C10: a reply call that failed (non-2xx, malformed body, abort) puts an
\* apology into the history as the model turn, after the user turn of the same
\* request, and sends it as ai_response, and no error event is sent for it.
C10_FailureBecomesApology ==
    /\ \A i \in DOMAIN conversationHistory :
         LET turn == conversationHistory[i] IN
         (turn.role = "model" /\ turn.text.outcome \in Failures)
           => /\ turn.text.kind = "apology"
              /\ \E j \in 1..(i - 1) :
                   /\ conversationHistory[j].role = "user"
                   /\ conversationHistory[j].text.req = turn.text.req
    /\ \A i \in DOMAIN sent :
         (sent[i].type = "ai_response" /\ sent[i].text.outcome \in Failures)
           => sent[i].text.kind = "apology"
    /\ Count(sent, ErrorEvent)
         = Cardinality({i \in DOMAIN events : events[i].type = "malformed"})

----------------------------------------------------------------------------
(* C11 *)

\* C11: without an API key the connection gets connection_status with
\* hasApiKey false and one error event, stays open, and every text_message
\* with a text is still handled: its user_message is sent and its generation
\* call is in flight or answered by an ai_response.
C11_NoKeyStillAnswers ==
    ~hasApiKey =>
        /\ sent[1] = ConnectionStatusNoKey
        /\ sent[2] = ErrorEvent
        /\ open
        /\ \A i \in DOMAIN events :
             (events[i].type = "text_message" /\ events[i].arg = 1)
               => /\ \E k \in DOMAIN sent : sent[k] = UserMessage(TypedText(i))
                  /\ i \in InFlight \/ Answered(i)

----------------------------------------------------------------------------
(* C12 *)

\* C12: once the connection has closed, the generation call that was pending
\* is cancelled and nothing is appended to the session's history any more.
C12_NothingAfterClose ==
    [][~open => (Outstanding = {} /\ conversationHistory' = conversationHistory)]_vars

----------------------------------------------------------------------------
(* C13 *)

\* C13: the table holds exactly one entry per open connection, each open
\* connection finds its own session under its clientId, and the handlers of a
\* connection work on no session but the one created for it.
C13_OneEntryPerOpenConnection ==
    /\ Cardinality(DOMAIN table)
         = Cardinality({c \in DOMAIN conns : conns[c].open})
    /\ \A c \in DOMAIN conns :
         /\ conns[c].open =>
              (conns[c].clientId \in DOMAIN table /\ table[conns[c].clientId] = c)
         /\ conns[c].used \subseteq {c}

----------------------------------------------------------------------------
(* C14 *)

\* C14: whenever a generation call of the client's text_message or stop_mic is
\* unresolved and not cancelled, and the client has handled all the server
\* has sent, the Interrupt button takes the click and its handler sends the
\* interrupt message.
C14_InterruptWhileInFlight ==
    (Outstanding # {} /\ delivered = Len(sent)) => InterruptEnabled

----------------------------------------------------------------------------
(* C15 *)

\* Reading the clip back: little-endian fields at a byte offset counted from 0
ReadUInt16(b, off) == b[off + 1] + 256 * b[off + 2]

ReadUInt32(b, off) ==
    b[off + 1] + 256 * b[off + 2] + 65536 * b[off + 3] + 16777216 * b[off + 4]

ReadInt16(b, off) ==
    IF ReadUInt16(b, off) >= 32768 THEN ReadUInt16(b, off) - 65536
    ELSE ReadUInt16(b, off)

\* The clip is 44 + 2N bytes, its header decodes to the sizes and the format,
\* and the samples behind the header are the given ones in order
ClipOf(wav, samples) ==
    LET N == Len(samples) IN
    /\ Len(wav) = 44 + 2 * N
    /\ ReadUInt32(wav, 4) = 36 + 2 * N
    /\ ReadUInt16(wav, 22) = 1
    /\ ReadUInt32(wav, 24) = 16000
    /\ ReadUInt16(wav, 34) = 16
    /\ ReadUInt32(wav, 40) = 2 * N
    /\ \A i \in 1..N : ReadInt16(wav, 44 + 2 * (i - 1)) = samples[i]

\* C15: the clip that stop_mic makes of the N buffered int16 samples is
\* 44 + 2N bytes long, its header decodes to dataSize 2N, RIFF size 36 + 2N,
\* sample rate 16000, 1 channel and 16 bits per sample, and the samples after
\* the header are the buffered samples in order.
C15_WavRoundTrip ==
    [][(StepOf("stop_mic") /\ isSpeaking /\ audioBuffer # <<>>) =>
        \A h \in handlers' \ handlers : ClipOf(h.audio, audioBuffer)]_vars

\* A clip of three samples, negative, small and positive
C15_Witness ==
    \E h \in handlers :
        /\ h.stage = "transcribe"
        /\ Len(h.audio) = 50
        /\ audioBuffer = <<0 - 32768, 256, 32767>>
        /\ ClipOf(h.audio, audioBuffer)

----------------------------------------------------------------------------
(* C16 *)

\* C16: an interrupt handled in any state cancels the pending request if there
\* is one, empties the audio buffer, turns the mic off and sends interrupt_ack
\* and then mic_status{started:false}, and nothing else; history and
\* languageCode stay as they were.
C16_InterruptEffects ==
    [][StepOf("interrupt") =>
        /\ abortController # NoController => abortController \in aborted'
        /\ Outstanding' = {}
        /\ audioBuffer' = <<>>
        /\ ~isSpeaking'
        /\ sent' = sent \o <<InterruptAck, MicStatus(FALSE)>>
        /\ UNCHANGED <<conversationHistory, languageCode>>]_vars

\* An interrupt that arrived while listening with a call in flight, in a
\* session that has history and a requested language
C16_Witness ==
    /\ events # <<>>
    /\ events[Len(events)].type = "interrupt"
    /\ events[Len(events)].mic
    /\ events[Len(events)].inflight # {}
    /\ conversationHistory # <<>>
    /\ languageCode # DefaultLanguage
    /\ SentSince(Len(sent) - 2) = <<InterruptAck, MicStatus(FALSE)>>

----------------------------------------------------------------------------
(* C17 *)

\* C17: whenever no API call of the session is in flight, the session holds
\* no pending-request handle.
C17_HandleClearedWhenNoCall ==
    handlers = {} => abortController = NoController

----------------------------------------------------------------------------
(* C18 *)

\* C18: once the mic is off and the transcription call that took the buffered
\* samples has been handled, the audio buffer is empty.
C18_BufferClearedOnStop ==
    (~isSpeaking /\ handlers = {}) => audioBuffer = <<>>

----------------------------------------------------------------------------
(* C19 *)

\* C19: a start_mic handled in any state turns the mic on, empties the audio
\* buffer and sends mic_status{started:true}, and nothing else; the history is
\* left as it was and no pending request is cancelled.
C19_StartMicEffects ==
    [][StepOf("start_mic") =>
        /\ isSpeaking'
        /\ audioBuffer' = <<>>
        /\ sent' = Append(sent, MicStatus(TRUE))
        /\ Outstanding' = Outstanding
        /\ UNCHANGED <<conversationHistory, abortController, aborted, handlers>>]_vars

\* A start_mic that arrived while listening, after samples were buffered and
\* with a call in flight that is still not cancelled
C19_Witness ==
    /\ Len(events) >= 2
    /\ events[Len(events)].type = "start_mic"
    /\ events[Len(events)].mic
    /\ events[Len(events) - 1].type = "audio_data"
    /\ events[Len(events) - 1].arg = 1
    /\ events[Len(events) - 1].mic
    /\ Outstanding # {}
    /\ conversationHistory # <<>>
    /\ audioBuffer = <<>>

----------------------------------------------------------------------------
(* C20 *)

\* The characters of s from its first to its last character that is no space
Stripped(s) ==
    LET inked == {i \in DOMAIN s : s[i] # " "} IN
    IF inked = {} THEN <<>>
    ELSE SubSeq(s, CHOOSE i \in inked : \A j \in inked : i <= j,
                   CHOOSE i \in inked : \A j \in inked : i >= j)

\* The language requested by the most recent start_mic of the trace that
\* carried a string with something in it, the default if there is none
RECURSIVE Requested(_)
Requested(es) ==
    IF es = <<>> THEN DefaultLanguage
    ELSE LET e == es[Len(es)] IN
         IF e.type = "start_mic" /\ e.lang.isString /\ Stripped(e.lang.chars) # <<>>
         THEN Stripped(e.lang.chars)
         ELSE Requested(SubSeq(es, 1, Len(es) - 1))

\* C20: languageCode is en-IN at first and always the trimmed languageCode of
\* the most recent start_mic that carried a non-blank string, the default if
\* there was none; a start_mic without one, and every other message and every
\* call completion, leave it as it was.
C20_LanguageIsLastRequested ==
    /\ languageCode = Requested(events)
    /\ DefaultLanguage = <<"e", "n", "-", "I", "N">>
    /\ events = <<>> => languageCode = DefaultLanguage

\* Two start_mic with different languages, then one with a blank languageCode
C20_Witness ==
    /\ Len(events) >= 3
    /\ events[1].type = "start_mic"
    /\ events[1].lang.chars = <<" ", "h", "i", " ">>
    /\ events[2].type = "start_mic"
    /\ events[2].lang.chars = <<"t", "a">>
    /\ events[3].type = "start_mic"
    /\ events[3].lang.chars = <<" ">>
    /\ languageCode = <<"t", "a">>

----------------------------------------------------------------------------
(* C21 *)

\* C21: a text_message with a text, handled in any state, appends the user
\* turn and sends user_message, cancels the pending request and issues one
\* reply call (no transcription) that was handed the history with the new
\* turn already in it; mic, audio buffer and languageCode stay as they were.
C21_TextBypassesMic ==
    [][(StepOf("text_message") /\ events'[Len(events')].arg = 1) =>
        /\ conversationHistory' =
             Append(conversationHistory, Turn("user", TypedText(NextReq)))
        /\ sent' = Append(sent, UserMessage(TypedText(NextReq)))
        /\ \E h \in handlers' \ handlers :
             /\ handlers' = handlers \cup {h}
             /\ Outstanding' = {h}
             /\ h.stage = "reply"
             /\ h.path = "text_message"
             /\ h.histLen = Len(conversationHistory')
        /\ UNCHANGED <<isSpeaking, audioBuffer, languageCode>>]_vars

\* A text_message that arrived while listening, with samples buffered and an
\* earlier call in flight
C21_Witness ==
    /\ events # <<>>
    /\ events[Len(events)].type = "text_message"
    /\ events[Len(events)].arg = 1
    /\ events[Len(events)].inflight # {}
    /\ events[Len(events)].mic
    /\ isSpeaking
    /\ audioBuffer # <<>>
    /\ Len(events) \in InFlight

----------------------------------------------------------------------------
(* C22 *)

\* The last entry of a request's contents
Prompt(h) == h.contents[Len(h.contents)]

\* C22: a stop_mic with samples buffered issues one transcription call that
\* carries the clip; when that call resolves, the text it returned becomes the
\* user turn and the user_message, and one reply call is issued whose prompt
\* is that text; a voice call is issued in no other way, so each utterance
\* makes exactly these two calls, one after the other.
C22_TwoSequentialCalls ==
    [][/\ (StepOf("stop_mic") /\ isSpeaking /\ audioBuffer # <<>>) =>
            \E h \in handlers' \ handlers :
                /\ handlers' = handlers \cup {h}
                /\ h.req = Len(events')
                /\ h.stage = "transcribe"
                /\ h.audio = WavOf(audioBuffer)
                /\ Prompt(h) = Turn("user", AudioPart(h.req))
       /\ \A g \in handlers \ handlers' :
            g.stage = "transcribe" =>
              \E h \in handlers' \ handlers, o \in AllOutcomes :
                  LET userText == TranscribeResult(g.req, o) IN
                  /\ handlers' = (handlers \ {g}) \cup {h}
                  /\ h.req = g.req
                  /\ h.stage = "reply"
                  /\ Prompt(h) = Turn("user", userText)
                  /\ conversationHistory' =
                       Append(conversationHistory, Turn("user", userText))
                  /\ sent' = Append(sent, UserMessage(userText))
                  /\ h.histLen = Len(conversationHistory')
       /\ \A h \in handlers' \ handlers :
            h.path = "stop_mic" =>
              \/ h.stage = "transcribe" /\ StepOf("stop_mic")
              \/ /\ h.stage = "reply"
                 /\ \E g \in handlers \ handlers' :
                      g.req = h.req /\ g.stage = "transcribe"
       /\ \A g \in handlers \ handlers' :
            (g.path = "stop_mic" /\ g.stage = "reply") =>
                handlers' = handlers \ {g}]_vars

\* The reply call of an utterance is in flight, its prompt the transcript
C22_Witness ==
    \E h \in handlers :
        /\ h.path = "stop_mic"
        /\ h.stage = "reply"
        /\ Prompt(h) = Turn("user", TranscribeResult(h.req, "ok"))
        /\ conversationHistory[Len(conversationHistory)] = Prompt(h)
        /\ sent[Len(sent)] = UserMessage(Prompt(h).text)
        /\ Len(h.audio) = 46

----------------------------------------------------------------------------
(* C23 *)

\* The text a successful reply call of request r returns
ReplyOf(r) == ReplyResult(r, "ok")

\* Requests whose reply call has completed successfully
Completed ==
    {r \in DOMAIN events :
        \/ \E l \in DOMAIN sent : sent[l] = AiResponse(ReplyOf(r))
        \/ \E j \in DOMAIN conversationHistory :
             conversationHistory[j] = Turn("model", ReplyOf(r))}

\* C23: for every request whose reply call completed successfully, history
\* holds its user turn and, later, its model turn, once each, and the client
\* was sent user_message with the user turn's text and, later, ai_response
\* with the model turn's text, once each.
C23_UserThenModel ==
    \A r \in Completed :
        LET users == {i \in DOMAIN conversationHistory :
                        /\ conversationHistory[i].role = "user"
                        /\ conversationHistory[i].text.req = r}
            models == {j \in DOMAIN conversationHistory :
                         /\ conversationHistory[j].role = "model"
                         /\ conversationHistory[j].text.req = r}
            userMessages == {k \in DOMAIN sent :
                               sent[k].type = "user_message" /\ sent[k].text.req = r}
            aiResponses == {l \in DOMAIN sent :
                              sent[l].type = "ai_response" /\ sent[l].text.req = r}
        IN  /\ Cardinality(users) = 1
            /\ Cardinality(models) = 1
            /\ Cardinality(userMessages) = 1
            /\ Cardinality(aiResponses) = 1
            /\ \A i \in users, j \in models :
                 i < j /\ conversationHistory[j] = Turn("model", ReplyOf(r))
            /\ \A k \in userMessages, l \in aiResponses :
                 k < l /\ sent[l] = AiResponse(ReplyOf(r))
            /\ \A i \in users, k \in userMessages :
                 sent[k] = UserMessage(conversationHistory[i].text)

\* A typed request and a spoken one have both been answered successfully
C23_Witness ==
    \E r, q \in Completed :
        /\ events[r].type = "text_message"
        /\ events[q].type = "stop_mic"
        /\ Turn("user", TypedText(r)) \in
             {conversationHistory[n] : n \in DOMAIN conversationHistory}
        /\ Turn("user", TranscribeResult(q, "ok")) \in
             {conversationHistory[n] : n \in DOMAIN conversationHistory}

----------------------------------------------------------------------------
(* C24 *)

\* What the handler of the i-th message sends before its first await
Acks(i) ==
    CASE events[i].type = "start_mic" -> <<MicStatus(TRUE)>>
      [] events[i].type = "interrupt" -> <<InterruptAck, MicStatus(FALSE)>>
      [] events[i].type = "text_message" /\ events[i].arg = 1 ->
             <<UserMessage(TypedText(i))>>
      [] OTHER -> <<>>

\* With a call unresolved, the session still takes every kind of message
AcceptsWhileInFlight ==
    (handlers # {} /\ Len(events) < limit) =>
        /\ ENABLED StartMic(NoLanguage)
        /\ ENABLED AudioData([isArray |-> TRUE, samples |-> <<7>>])
        /\ ENABLED Interrupt
        /\ ENABLED TextMessage("hello")

\* Messages that arrived with a call in flight were acknowledged in the order
\* of their arrival, and before anything that call's handler sent afterwards
AcksInArrivalOrder ==
    \A i \in DOMAIN events :
        /\ events[i].inflight # {} =>
             /\ SubSeq(sent, events[i].sentBefore + 1,
                       events[i].sentBefore + Len(Acks(i))) = Acks(i)
             /\ \A n \in DOMAIN sent :
                  (sent[n].type = "ai_response" /\ sent[n].text.req \in events[i].inflight)
                    => n > events[i].sentBefore + Len(Acks(i))
        /\ \A j \in DOMAIN events :
             i < j => events[j].sentBefore >= events[i].sentBefore + Len(Acks(i))

\* A message handled with a call in flight updates the session in that very
\* step, and the call is as unresolved after the step as before
EffectWhileInFlight ==
    (handlers # {} /\ Len(events') = Len(events) + 1) =>
        /\ handlers \subseteq handlers'
        /\ events' = Append(events, events'[Len(events')])
        /\ StepOf("start_mic") => isSpeaking' /\ audioBuffer' = <<>>
        /\ (StepOf("audio_data") /\ isSpeaking /\ events'[Len(events')].arg > 0) =>
             Len(audioBuffer') = Len(audioBuffer) + events'[Len(events')].arg
        /\ StepOf("interrupt") => ~isSpeaking' /\ audioBuffer' = <<>>
        /\ (StepOf("text_message") /\ events'[Len(events')].arg = 1) =>
             Len(conversationHistory') = Len(conversationHistory) + 1

\* C24: an unresolved call does not block the session: start_mic, audio_data,
\* interrupt and text_message are still accepted, each is handled on arrival
\* with its state change, and their acknowledgments go out in arrival order
\* before the call resolves.
C24_CallsDoNotBlock ==
    /\ [](AcceptsWhileInFlight /\ AcksInArrivalOrder)
    /\ [][EffectWhileInFlight]_vars

\* A call is still unresolved after start_mic, audio_data and interrupt were
\* handled behind it
C24_Witness ==
    /\ Len(events) = 4
    /\ events[1].type = "text_message"
    /\ events[2].type = "start_mic"
    /\ events[3].type = "audio_data"
    /\ events[3].arg = 1
    /\ events[4].type = "interrupt"
    /\ 1 \in InFlight
    /\ SentSince(events[2].sentBefore) =
         <<MicStatus(TRUE), InterruptAck, MicStatus(FALSE)>>

----------------------------------------------------------------------------
(* C25 *)

\* s is a prefix of t
IsPrefix(s, t) == Len(s) <= Len(t) /\ SubSeq(t, 1, Len(s)) = s

\* C25: every step leaves the stored history as a prefix of the new one, also
\* a step that builds a request from the last ten turns only: the call is
\* handed the whole log and the log keeps every turn.
C25_HistoryAppendOnly ==
    [][/\ IsPrefix(conversationHistory, conversationHistory')
       /\ \A h \in handlers' \ handlers :
            /\ h.histLen = Len(conversationHistory')
            /\ Len(h.contents) <= 2 * HistoryWindow + 1]_vars

\* A reply call was built from the last ten turns of a longer history, and
\* the history still holds all of its turns
C25_Witness ==
    \E h \in handlers :
        /\ h.stage = "reply"
        /\ Len(h.contents) = HistoryWindow + 1
        /\ h.histLen > HistoryWindow
        /\ Len(conversationHistory) >= h.histLen
        /\ IsPrefix(Exchanged(MaxPairs), conversationHistory)

----------------------------------------------------------------------------
(* C26 *)

\* The r-th message was a stop_mic that found the mic on
StopAccepted(r) ==
    r \in DOMAIN events /\ events[r].type = "stop_mic" /\ events[r].mic

\* mic_status{started:false} was sent after the r-th message arrived
MicOffAfter(r) ==
    /\ r \in DOMAIN events
    /\ \E n \in DOMAIN sent : n > events[r].sentBefore /\ sent[n] = MicStatus(FALSE)

\* The r-th message was a text_message with a text
TextAccepted(r) ==
    r \in DOMAIN events /\ events[r].type = "text_message" /\ events[r].arg = 1

\* A step after which no un-cancelled call is left either resolves a call or
\* handles a message that cancels
OnlyResolutionOrCancel ==
    (Outstanding # {} /\ Outstanding' = {}) =>
        \/ \E h \in handlers : h \notin handlers'
        \/ StepOf("interrupt")
        \/ StepOf("stop_mic")
        \/ StepOf("text_message")

\* C26: when every issued call resolves and continuations are run, every
\* stop_mic accepted with the mic on is followed by mic_status{started:false},
\* every accepted text_message by its ai_response or by its cancellation, and
\* every call in flight leaves flight; and an un-cancelled call stops being
\* pending only by resolving or by a message that cancels it.
C26_Progress ==
    /\ \A r \in 1..MaxFairEvents :
         /\ StopAccepted(r) ~> MicOffAfter(r)
         /\ TextAccepted(r) ~> (Answered(r) \/ r \in aborted)
         /\ (r \in InFlight) ~> (r \notin InFlight)
    /\ <>[](handlers = {})
    /\ [][OnlyResolutionOrCancel]_vars

\* An utterance and its two calls have run to their end
C26_Witness ==
    \E r \in DOMAIN events :
        /\ StopAccepted(r)
        /\ events[r].issued
        /\ Answered(r)
        /\ sent[Len(sent)] = MicStatus(FALSE)
        /\ handlers = {}
        /\ limit = MaxFairEvents

----------------------------------------------------------------------------
(* C27 *)

\* The started flag of the mic_status sent last, FALSE if none was sent
LastMicStatus ==
    LET at == {n \in DOMAIN sent : sent[n].type = "mic_status"} IN
    IF at = {} THEN FALSE
    ELSE sent[CHOOSE n \in at : \A m \in at : m <= n].flag

\* C27: whenever no handler is suspended on a call, the mic_status sent last
\* says what the session's mic flag is.
C27_MicStatusAgrees ==
    handlers = {} => LastMicStatus = isSpeaking

----------------------------------------------------------------------------
(* C28 *)

\* C28: the history is a sequence of (user turn, model turn) pairs, possibly
\* followed by one unanswered user turn: turns at odd places are user turns,
\* turns at even places are model turns, and each model turn answers the user
\* turn right before it.
C28_TurnsAlternate ==
    \A i \in DOMAIN conversationHistory :
        IF i % 2 = 1 THEN conversationHistory[i].role = "user"
        ELSE /\ conversationHistory[i].role = "model"
             /\ conversationHistory[i].text.req = conversationHistory[i - 1].text.req

----------------------------------------------------------------------------
(* C29 *)

Turns(role) ==
    Cardinality({i \in DOMAIN conversationHistory :
                    conversationHistory[i].role = role})

\* Handlers suspended on a reply call
AwaitingReply == {h \in handlers : h.stage = "reply"}

\* C29: history never holds more model turns than user turns; the user turns
\* in excess are as many as the handlers suspended on a reply call, so with
\* no handler suspended the two counts are equal.
C29_TurnBalance ==
    /\ Turns("model") <= Turns("user")
    /\ Turns("user") - Turns("model") = Cardinality(AwaitingReply)
    /\ handlers = {} => Turns("user") = Turns("model")

\* The reply call of an utterance is awaited behind a typed exchange that is
\* complete
C29_Witness ==
    /\ Turns("model") = 1
    /\ Turns("user") = 2
    /\ conversationHistory[1].text.kind = "typed"
    /\ \E g \in AwaitingReply : g.path = "stop_mic" /\ handlers = {g}

----------------------------------------------------------------------------
(* C30 *)

\* C30: in the contents of every reply request the new user text appears
\* once, as the last entry.
C30_PromptOnce ==
    \A h \in AwaitingReply :
        /\ Prompt(h).role = "user"
        /\ Count(h.contents, Prompt(h)) = 1

====
